---- MODULE Spec2Model ----
(***************************************************************************)
(* A model of Transformation-Management.py: the ConvertWorker thread       *)
(* (find_files, get_unique_path, convert_file, run) over a small file      *)
(* system, with the ThreadPoolExecutor and as_completed that run() uses,   *)
(* and the FileConverter window that starts it and handles its signals.    *)
(*                                                                         *)
(* Paths are records [dir, name, ext] standing for the string              *)
(* dir/name+ext (PathStr); two paths are the same file when their strings  *)
(* are equal.  Korean message texts are written in ASCII.                  *)
(***************************************************************************)
EXTENDS Integers, Sequences, FiniteSets, TLC

\* ------------------------------------------------------------------ bounds
\* most files present on disk when the worker is constructed
MaxFiles == 3
\* largest max_workers a worker is constructed with
MaxWorkers == 2

\* most files a run of the percent computation is given
MaxTotal == 50
\* most conversions started from one window
MaxRuns == 2
\* most times folders are selected before a conversion is started
MaxSelections == 2

\* ------------------------------------------------------------------ paths
None == "None"

File(d, n, e) == [dir |-> d, name |-> n, ext |-> e]

\* the full path string of a path record
PathStr(p) == p.dir \o "/" \o p.name \o p.ext

\* os.path.splitext: (base, ext); the base keeps the directory
splitext(p) == << [dir |-> p.dir, name |-> p.name], p.ext >>

\* os.path.basename
basename(p) == p.name \o p.ext

\* os.path.dirname
dirname(p) == p.dir

\* os.path.exists on the files of disk (a set of path records)
exists(p, disk) == PathStr(p) \in { PathStr(q) : q \in disk }

\* the lower-case words whose spellings occur as extensions or format names,
\* letter by letter; the empty word is the extension of a name without one
Words ==
    { << ".", "p", "d", "f" >>, << ".", "p", "n", "g" >>, << ".", "j", "p", "g" >>,
      << ".", "j", "p", "e", "g" >>, << ".", "x", "l", "s" >>,
      << ".", "x", "l", "s", "x" >>, << ".", "t", "x", "t" >>,
      << "p", "d", "f" >>, << "p", "n", "g" >>, << "e", "x", "c", "e", "l" >>, << >> }

\* the upper-case form of a character; a character without case is itself
upper_char(c) ==
    CASE c = "a" -> "A" [] c = "b" -> "B" [] c = "c" -> "C" [] c = "d" -> "D"
      [] c = "e" -> "E" [] c = "f" -> "F" [] c = "g" -> "G" [] c = "h" -> "H"
      [] c = "i" -> "I" [] c = "j" -> "J" [] c = "k" -> "K" [] c = "l" -> "L"
      [] c = "m" -> "M" [] c = "n" -> "N" [] c = "o" -> "O" [] c = "p" -> "P"
      [] c = "q" -> "Q" [] c = "r" -> "R" [] c = "s" -> "S" [] c = "t" -> "T"
      [] c = "u" -> "U" [] c = "v" -> "V" [] c = "w" -> "W" [] c = "x" -> "X"
      [] c = "y" -> "Y" [] c = "z" -> "Z" [] OTHER -> c

\* the string of a word
RECURSIVE Text(_)
Text(w) == IF w = << >> THEN "" ELSE Head(w) \o Text(Tail(w))

\* every string that differs from the lower-case word w only in the case of letters
RECURSIVE Spellings(_)
Spellings(w) ==
    IF w = << >> THEN { "" }
    ELSE { c \o rest : c \in { Head(w), upper_char(Head(w)) }, rest \in Spellings(Tail(w)) }

\* str.lower() as a table: each spelling of a word of Words with its lower-case string
LowerTable ==
    UNION { { << s, Text(w) >> : s \in Spellings(w) } : w \in Words }

\* str.lower(): the lower-case string of which s is a spelling.  Defined on the
\* spellings of Words, which hold every extension and format name of the model
lower(s) == (CHOOSE p \in LowerTable : p[1] = s)[2]

\* decimal digits of a natural number, as str() / an f-string renders it
Digit(k) ==
    CASE k = 0 -> "0" [] k = 1 -> "1" [] k = 2 -> "2" [] k = 3 -> "3"
      [] k = 4 -> "4" [] k = 5 -> "5" [] k = 6 -> "6" [] k = 7 -> "7"
      [] k = 8 -> "8" [] k = 9 -> "9"

RECURSIVE str(_)
str(k) == IF k < 10 THEN Digit(k) ELSE str(k \div 10) \o Digit(k % 10)

\* ------------------------------------------------------------------ inputs
\* directories of the modelled tree: /r contains /r/s
Dirs == << "/r", "/r/s" >>

\* dirpath is folder itself or below it (what os.walk(folder) visits)
under(dirpath, folder) ==
    \/ dirpath = folder
    \/ folder = "/r" /\ dirpath = "/r/s"

\* the files that may be on disk before a run
Universe ==
    { File("/r", "a", ".png"), File("/r", "a", ".JPG"), File("/r", "a", ".pdf"),
      File("/r/s", "b", ".xlsx"), File("/r/s", "b", ".pdf") }

\* the folder lists a worker is constructed with
FolderChoices == { << "/r" >>, << "/r/s" >>, << "/r", "/r/s" >> }

\* the format names of the combo boxes
FormatNames == { "PDF", "PNG", "Excel" }

\* number of pages of a PDF document (content of the input file)
page_count(f) ==
    CASE f.name = "a" -> 2
      [] f.name = "d" -> 3
      [] OTHER -> 1

\* ConvertWorker.supported
supported(fmt) ==
    CASE fmt = "pdf" -> { ".pdf" }
      [] fmt = "png" -> { ".png", ".jpg", ".jpeg" }
      [] fmt = "excel" -> { ".xls", ".xlsx" }

VARIABLES
    folders,        \* self.folders
    src_format,     \* self.src_format
    target_format,  \* self.target_format
    max_workers,    \* self.max_workers
    fs,             \* the files on disk
    cpc,            \* position of run(): "start", "submit", "collect", "done"
    file_list,      \* file_list of run()
    submitted,      \* number of executor.submit calls made
    queue,          \* the executor's work queue (task numbers, FIFO)
    task,           \* per call of convert_file: its position (pc), locals, exception
                    \* raised (exc) and return value (result)
    yieldq,         \* futures as_completed has still to yield, in order
    yielded,        \* the futures the loop of run() has handled, in order
    failed_files,   \* self.failed_files
    events,         \* the signals emitted so far, in order
    ioLog,          \* every file-system or process operation made by a task
    fsAtStart,      \* per task: the files on disk when its output_path was chosen
    window          \* the FileConverter window: its buttons, combo boxes, selection,
                    \* progress bar and log; the number of folder dialogs closed since
                    \* the last conversion, of workers started, and of signals of the
                    \* current worker its slots have handled

vars == << folders, src_format, target_format, max_workers, fs, cpc, file_list,
           submitted, queue, task, yieldq, yielded, failed_files, events,
           ioLog, fsAtStart, window >>

args == << folders, src_format, target_format, max_workers >>

total == Len(file_list)
Tasks == 1..total


\* ------------------------------------------------------------------ find_files
\* all orderings of a finite set, as sequences
Perms(S) ==
    { q \in [1..Cardinality(S) -> S] : \A i, j \in 1..Cardinality(S) : q[i] = q[j] => i = j }

RECURSIVE concat(_)
concat(ss) == IF ss = << >> THEN << >> ELSE Head(ss) \o concat(Tail(ss))

\* a faulty filter: the extension is compared as spelled, without lower()
matching_case_sensitive(dirpath, scan, fmt) ==
    SelectSeq(scan, LAMBDA f : f.dir = dirpath /\ f.ext \in supported(fmt))

\* the matching files os.walk reports for one dirpath, in the order scan lists them
matching(dirpath, scan, fmt) ==
    SelectSeq(scan, LAMBDA f : f.dir = dirpath /\ lower(f.ext) \in supported(fmt))

\* os.walk(folder), top-down: the matching files of every directory at or below folder
walk(folder, scan, fmt) ==
    concat([ d \in 1..Len(Dirs) |->
               IF under(Dirs[d], folder) THEN matching(Dirs[d], scan, fmt) ELSE << >> ])

\* ConvertWorker.find_files; scan is the order in which the OS lists the files
find_files(flds, scan, fmt) ==
    concat([ k \in 1..Len(flds) |-> walk(flds[k], scan, fmt) ])

\* ------------------------------------------------------------------ get_unique_path
\* f"{base}({counter}){ext}" with base, ext = os.path.splitext(path)
suffixed(path, counter) ==
    LET base == splitext(path)[1]
        ext == splitext(path)[2]
    IN  [dir |-> base.dir, name |-> base.name \o "(" \o str(counter) \o ")", ext |-> ext]

\* the while loop of get_unique_path
RECURSIVE unique_loop(_, _, _, _)
unique_loop(path, new_path, counter, disk) ==
    IF exists(new_path, disk)
    THEN unique_loop(path, suffixed(path, counter), counter + 1, disk)
    ELSE new_path

\* a faulty loop: splits the previous candidate instead of the original path
RECURSIVE unique_loop_accumulating(_, _, _, _)
unique_loop_accumulating(path, new_path, counter, disk) ==
    IF exists(new_path, disk)
    THEN unique_loop_accumulating(path, suffixed(new_path, counter), counter + 1, disk)
    ELSE new_path

get_unique_path_accumulating(path, disk) == unique_loop_accumulating(path, path, 1, disk)

\* ConvertWorker.get_unique_path against the files on disk
get_unique_path(path, disk) == unique_loop(path, path, 1, disk)

\* the paths whose existence one call of get_unique_path tests
RECURSIVE probes_loop(_, _, _, _)
probes_loop(path, new_path, counter, disk) ==
    IF exists(new_path, disk)
    THEN { new_path } \cup probes_loop(path, suffixed(path, counter), counter + 1, disk)
    ELSE { new_path }

probes(path, disk) == probes_loop(path, path, 1, disk)

\* ------------------------------------------------------------------ convert_file
\* f"{base}.{self.target_format}"
target_path(file_path, fmt) ==
    LET base == splitext(file_path)[1]
    IN  [dir |-> base.dir, name |-> base.name, ext |-> "." \o fmt]

\* a faulty name: the page index counted from 0, f"{base}_page{page_num}.png"
page_target_zero_based(file_path, page) ==
    LET base == splitext(file_path)[1]
    IN  [dir |-> base.dir, name |-> base.name \o "_page" \o str(page - 1), ext |-> ".png"]

\* f"{base}_page{page_num+1}.png", page counted from 1
page_target(file_path, page) ==
    LET base == splitext(file_path)[1]
    IN  [dir |-> base.dir, name |-> base.name \o "_page" \o str(page), ext |-> ".png"]

\* the file soffice --convert-to pdf --outdir dirname(file_path) file_path writes
soffice_output(file_path) ==
    [dir |-> dirname(file_path), name |-> splitext(file_path)[1].name, ext |-> ".pdf"]

\* texts of the exceptions
PdfUnsupported == "PDF->Excel conversion is not supported."
PngUnsupported == "PNG->Excel conversion is not supported."
IoError == "cannot read or write file"
\* SOFFICE_PATH, as its directories and file name
SofficeParts == << "C:", "Program Files", "LibreOffice", "program", "soffice.exe" >>

\* the parts of a Windows path joined by sep
RECURSIVE JoinWith(_, _)
JoinWith(parts, sep) ==
    IF Len(parts) = 1 THEN parts[1] ELSE parts[1] \o sep \o JoinWith(Tail(parts), sep)

SOFFICE_PATH == JoinWith(SofficeParts, "\\")

\* repr() of SOFFICE_PATH: quoted, every backslash doubled
SofficeRepr == "'" \o JoinWith(SofficeParts, "\\\\") \o "'"

\* str(e) of the FileNotFoundError of subprocess.run: soffice cannot be started
NotStarted == "[Errno 2] No such file or directory: " \o SofficeRepr

\* the return codes of the soffice child that are drawn: 0, two exit statuses, and
\* death by signal 9, which subprocess reports as the return code -9
ReturnCodes == { 0, 1, 3, 0 - 9 }

\* signal.Signals(n).name
SignalName(n) == CASE n = 9 -> "SIGKILL" [] n = 11 -> "SIGSEGV" [] n = 15 -> "SIGTERM"

\* str(e) of the CalledProcessError of subprocess.run(cmd, check=True) for a return
\* code other than 0; the text holds the argument list and the status or the signal
ProcessError(file_path, code) ==
    "Command '[" \o SofficeRepr \o ", '--headless', '--convert-to', 'pdf', '--outdir', '"
        \o dirname(file_path) \o "', '" \o PathStr(file_path) \o "']' "
        \o (IF code < 0
            THEN "died with <Signals." \o SignalName(0 - code) \o ": "
                     \o str(0 - code) \o ">."
            ELSE "returned non-zero exit status " \o str(code) \o ".")
soffice_error(e) == "LibreOffice conversion failed: " \o e

\* the whole percents t for which the double nearest to t / 100, multiplied by 100,
\* is a double just below t, so that int() gives t - 1
TruncatedDown == { 29, 57, 58 }

\* int((idx + 1) / total * 100) in double arithmetic: the floor of
\* (idx + 1) * 100 / total, except where the exact value is a whole number of
\* TruncatedDown
percent_of(idx, n) ==
    LET x == (idx + 1) * 100
    IN  IF x % n = 0 /\ (x \div n) \in TruncatedDown THEN (x \div n) - 1 ELSE x \div n

\* a faulty handler: the message is set but failed stays None
caught_unrecorded(file_path, e) ==
    [msg |-> "[FAIL] " \o basename(file_path) \o ": " \o e, failed |-> << >>]

\* the except branch of convert_file: the message and the failed pair
caught(file_path, e) ==
    [msg |-> "[FAIL] " \o basename(file_path) \o ": " \o e,
     failed |-> << PathStr(file_path), e >>]

\* the success branch; failed stays None, written << >>
succeeded(file_path) ==
    [msg |-> "[OK] " \o basename(file_path), failed |-> << >>]

\* what convert_file returns; e is the exception text, or None when nothing was raised
return_value(file_path, idx, n, e) ==
    LET r == IF e = None THEN succeeded(file_path) ELSE caught(file_path, e)
    IN  [percent |-> percent_of(idx, n), msg |-> r.msg, failed |-> r.failed]


\* ------------------------------------------------------------------ state after construction
NoPath == File("", "", "")

\* a worker constructed and started directly, without a FileConverter window
NoWindow == << >>
NoResult == [percent |-> 0, msg |-> "", failed |-> << >>]

\* ConvertWorker.__init__ on a disk holding at most MaxFiles of the files of Universe
Init ==
    /\ folders \in FolderChoices
    /\ \E s \in FormatNames : src_format = lower(s)
    /\ \E t \in FormatNames : target_format = lower(t)
    /\ max_workers \in 1..MaxWorkers
    /\ fs \in { d \in SUBSET Universe : Cardinality(d) <= MaxFiles }
    /\ cpc = "start"
    /\ file_list = << >>
    /\ submitted = 0
    /\ queue = << >>
    /\ task = << >>
    /\ yieldq = << >>
    /\ yielded = << >>
    /\ failed_files = << >>
    /\ events = << >>
    /\ ioLog = {}
    /\ fsAtStart = << >>
    /\ window = NoWindow

\* files of further spellings: upper-case extensions, another extension, a name
\* without extension and a name that is only a dot and letters (no extension for
\* os.path.splitext)
FindUniverse ==
    Universe \cup { File("/r", "a", ".PDF"), File("/r", "n", ".txt"),
                    File("/r/s", "c", ".jpeg"), File("/r/s", "d", ".XLS"),
                    File("/r/s", "c", ".JPEG"), File("/r", "e", ".XLSX"),
                    File("/r/s", "m", ".Pdf"), File("/r", "n", ".TXT"),
                    File("/r/s", "e", ""), File("/r", ".pdf", "") }

\* ConvertWorker.__init__ on a disk holding at most MaxFiles of the files of FindUniverse
FindInit ==
    /\ folders \in FolderChoices
    /\ \E s \in FormatNames : src_format = lower(s)
    /\ \E t \in FormatNames : target_format = lower(t)
    /\ max_workers = 1
    /\ fs \in { d \in SUBSET FindUniverse : Cardinality(d) <= MaxFiles }
    /\ cpc = "start"
    /\ file_list = << >>
    /\ submitted = 0
    /\ queue = << >>
    /\ task = << >>
    /\ yieldq = << >>
    /\ yielded = << >>
    /\ failed_files = << >>
    /\ events = << >>
    /\ ioLog = {}
    /\ fsAtStart = << >>
    /\ window = NoWindow

\* documents and page images: the 3-page /r/d.pdf, two page files of an earlier
\* conversion of it, and the 1-page /r/s/b.pdf
PagesUniverse ==
    { File("/r", "d", ".pdf"), File("/r", "d_page1", ".png"),
      File("/r", "d_page2", ".png"), File("/r/s", "b", ".pdf") }

\* ConvertWorker.__init__ for pdf -> png on a disk of files of PagesUniverse
PagesInit ==
    /\ folders \in FolderChoices
    /\ src_format = lower("PDF")
    /\ target_format = lower("PNG")
    /\ max_workers \in 1..MaxWorkers
    /\ fs \in SUBSET PagesUniverse
    /\ cpc = "start"
    /\ file_list = << >>
    /\ submitted = 0
    /\ queue = << >>
    /\ task = << >>
    /\ yieldq = << >>
    /\ yielded = << >>
    /\ failed_files = << >>
    /\ events = << >>
    /\ ioLog = {}
    /\ fsAtStart = << >>
    /\ window = NoWindow

\* the k-th of the documents of a long run
NumberedFile(k) == File("/r", "f" \o str(k), ".pdf")

\* run() of a worker for pdf -> excel with one pool thread, over 1..MaxTotal
\* documents, at the moment every call is submitted, none has started and
\* as_completed has been called
PercentInit ==
    /\ folders = << "/r" >>
    /\ src_format = lower("PDF")
    /\ target_format = lower("Excel")
    /\ max_workers = 1
    /\ \E n \in 1..MaxTotal :
         /\ fs = { NumberedFile(k) : k \in 1..n }
         /\ file_list = [ k \in 1..n |-> NumberedFile(k) ]
         /\ submitted = n
         /\ queue = [ k \in 1..n |-> k ]
         /\ task = [ k \in 1..n |->
                       [pc |-> "queued", output_path |-> NoPath, page |-> 0,
                        page_path |-> NoPath, exc |-> None, result |-> NoResult] ]
         /\ fsAtStart = [ k \in 1..n |-> {} ]
    /\ cpc = "collect"
    /\ yieldq = << >>
    /\ yielded = << >>
    /\ failed_files = << >>
    /\ events = << >>
    /\ ioLog = {}
    /\ window = NoWindow

\* ------------------------------------------------------------------ the window
\* the disks the window is opened on: one document, one image, or two workbooks
GuiDisks ==
    { { File("/r", "a", ".pdf") },
      { File("/r", "a", ".png") },
      { File("/r", "c", ".xls"), File("/r", "b", ".xlsx") } }

\* max_workers=4 of start_conversion
GuiMaxWorkers == 4

\* the value of a QProgressBar before setValue is called
BarUnset == 0 - 1

\* FileConverter.__init__: both combo boxes filled, the convert button disabled, no
\* folder selected, and no worker yet
GuiInit ==
    /\ window = [btn_folder |-> TRUE, btn_convert |-> FALSE,
                 selected_folders |-> << >>,
                 src_combo |-> "PDF", target_combo |-> "PNG",
                 bar |-> BarUnset, log |-> << >>,
                 selections |-> 0, workers |-> 0, handled |-> 0]
    /\ fs \in GuiDisks
    /\ folders = << >>
    /\ src_format = None
    /\ target_format = None
    /\ max_workers = 0
    /\ cpc = "none"
    /\ file_list = << >>
    /\ submitted = 0
    /\ queue = << >>
    /\ task = << >>
    /\ yieldq = << >>
    /\ yielded = << >>
    /\ failed_files = << >>
    /\ events = << >>
    /\ ioLog = {}
    /\ fsAtStart = << >>

\* ------------------------------------------------------------------ signals
progress(percent, msg) == << "progress", percent, msg >>
finished(failed) == << "finished", failed >>

NoFilesMsg == "No files of this format."

\* a faulty empty branch: the notification is left out
no_files_signals_silent == << finished(<< >>) >>

\* what run() emits when find_files returns nothing
no_files_signals == << progress(0, NoFilesMsg), finished(<< >>) >>

\* ------------------------------------------------------------------ the pool
\* the convert_file calls that have started and not returned
running ==
    { i \in DOMAIN task :
        task[i].pc \in { "started", "convert", "pagecheck", "pagesave", "saved",
                         "soffice", "written", "hung" } }

\* a faulty pool: one thread per submitted work item
pool_has_free_worker_unbounded(busy, workers) == TRUE

\* ThreadPoolExecutor(max_workers): a work item starts only on one of max_workers threads
pool_has_free_worker(busy, workers) == Cardinality(busy) < workers

\* a faulty as_completed: futures done before the call are not yielded
already_finished_dropped(t) == {}

\* a faulty as_completed: every future counts as done, running or not
already_finished_all(t) == DOMAIN t

\* the futures that are done when as_completed is called
already_finished(t) == { i \in DOMAIN t : t[i].pc = "finished" }

\* a faulty accumulation: every outcome is taken for a failure
record_failure_always(list, failed) == Append(list, failed)

\* a faulty accumulation: a failure is appended twice
record_failure_twice(list, failed) ==
    IF failed # << >> THEN Append(Append(list, failed), failed) ELSE list

\* if failed: self.failed_files.append(failed)
record_failure(list, failed) == IF failed # << >> THEN Append(list, failed) ELSE list

\* ------------------------------------------------------------------ run()
\* run(): find_files, and the branch total == 0, or the creation of the pool
run_begin ==
    /\ cpc = "start"
    /\ \E scan \in Perms(fs) :
         LET found == find_files(folders, scan, src_format) IN
         /\ file_list' = found
         /\ IF Len(found) = 0
            THEN /\ events' = events \o no_files_signals
                 /\ cpc' = "done"
            ELSE /\ events' = events
                 /\ cpc' = "submit"
         /\ task' = [ i \in 1..Len(found) |->
                        [pc |-> "new", output_path |-> NoPath, page |-> 0,
                         page_path |-> NoPath, exc |-> None, result |-> NoResult] ]
         /\ fsAtStart' = [ i \in 1..Len(found) |-> {} ]
    /\ UNCHANGED << args, window, fs, submitted, queue, yieldq, yielded, failed_files, ioLog >>

\* futures.append(executor.submit(self.convert_file, file_path, idx, total))
submit ==
    /\ cpc = "submit"
    /\ submitted < total
    /\ submitted' = submitted + 1
    /\ queue' = Append(queue, submitted + 1)
    /\ task' = [task EXCEPT ![submitted + 1].pc = "queued"]
    /\ UNCHANGED << args, window, fs, cpc, file_list, yieldq, yielded, failed_files, events,
                    ioLog, fsAtStart >>

\* concurrent.futures.as_completed(futures) is called: the futures already done
\* come first, in no particular order; the others follow as they complete
as_completed_begin ==
    /\ cpc = "submit"
    /\ submitted = total
    /\ \E order \in Perms(already_finished(task)) : yieldq' = order
    /\ cpc' = "collect"
    /\ UNCHANGED << args, window, fs, file_list, submitted, queue, task, yielded, failed_files,
                    events, ioLog, fsAtStart >>

\* one turn of the loop over as_completed: emit the outcome, keep the failure
collect ==
    /\ cpc = "collect"
    /\ yieldq # << >>
    /\ LET r == task[Head(yieldq)].result IN
         /\ events' = Append(events, progress(r.percent, r.msg))
         /\ failed_files' = record_failure(failed_files, r.failed)
    /\ yieldq' = Tail(yieldq)
    /\ yielded' = Append(yielded, Head(yieldq))
    /\ UNCHANGED << args, window, fs, cpc, file_list, submitted, queue, task, ioLog, fsAtStart >>

\* every future was yielded: the executor is shut down and finished is emitted
run_end ==
    /\ cpc = "collect"
    /\ Len(yielded) = total
    /\ events' = Append(events, finished(failed_files))
    /\ cpc' = "done"
    /\ UNCHANGED << args, window, fs, file_list, submitted, queue, task, yieldq, yielded,
                    failed_files, ioLog, fsAtStart >>


\* ------------------------------------------------------------------ the workers
\* one logged operation of task i on path p
io(i, op, p) == [task |-> i, op |-> op, path |-> PathStr(p)]

\* the existence tests of one get_unique_path call of task i
exists_calls(i, path, disk) == { io(i, "exists", c) : c \in probes(path, disk) }

\* convert_file of task i returns; e is the exception text or None.  The future is
\* done: as_completed, once called, yields it after those that completed before
returns(i, e) ==
    /\ task' = [task EXCEPT ![i] =
                  [@ EXCEPT !.pc = "finished", !.exc = e,
                            !.result = return_value(file_list[i], i - 1, total, e)]]
    /\ yieldq' = IF cpc = "collect" THEN Append(yieldq, i) ELSE yieldq

\* a pool thread takes the next work item off the queue and calls convert_file
worker_start(i) ==
    /\ queue # << >>
    /\ i = Head(queue)
    /\ pool_has_free_worker(running, max_workers)
    /\ queue' = Tail(queue)
    /\ task' = [task EXCEPT ![i].pc = "started"]
    /\ UNCHANGED << args, window, fs, cpc, file_list, submitted, yieldq, yielded,
                    failed_files, events, ioLog, fsAtStart >>

\* output_path = self.get_unique_path(f"{base}.{self.target_format}").  Files are
\* only ever added, so the answer of the loop is its answer on the disk at its last
\* existence test
convert_output_path(i) ==
    /\ task[i].pc = "started"
    /\ LET want == target_path(file_list[i], target_format) IN
         /\ task' = [task EXCEPT ![i] =
                       [@ EXCEPT !.pc = "convert", !.output_path = get_unique_path(want, fs)]]
         /\ ioLog' = ioLog \cup exists_calls(i, want, fs)
    /\ fsAtStart' = [fsAtStart EXCEPT ![i] = fs]
    /\ UNCHANGED << args, window, fs, cpc, file_list, submitted, queue, yieldq, yielded,
                    failed_files, events >>

\* pdf -> png: doc = fitz.open(file_path), which may raise
convert_pdf_open(i) ==
    /\ task[i].pc = "convert"
    /\ src_format = "pdf" /\ target_format = "png"
    /\ ioLog' = ioLog \cup { io(i, "open", file_list[i]) }
    /\ \/ /\ task' = [task EXCEPT ![i] = [@ EXCEPT !.pc = "pagecheck", !.page = 1]]
          /\ UNCHANGED yieldq
       \/ returns(i, IoError)
    /\ UNCHANGED << args, window, fs, cpc, file_list, submitted, queue, yielded, failed_files,
                    events, fsAtStart >>

\* pdf -> png: pix = page.get_pixmap(dpi=300), which may raise, and
\* page_path = self.get_unique_path(f"{base}_page{page_num+1}.png")
convert_page_path(i) ==
    /\ task[i].pc = "pagecheck"
    /\ \/ LET want == page_target(file_list[i], task[i].page) IN
            /\ task' = [task EXCEPT ![i] =
                          [@ EXCEPT !.pc = "pagesave",
                                    !.page_path = get_unique_path(want, fs)]]
            /\ ioLog' = ioLog \cup exists_calls(i, want, fs)
            /\ UNCHANGED yieldq
       \/ /\ returns(i, IoError)
          /\ UNCHANGED ioLog
    /\ UNCHANGED << args, window, fs, cpc, file_list, submitted, queue, yielded,
                    failed_files, events, fsAtStart >>

\* pdf -> png: pix.save(page_path), which may raise; then the next page, or the
\* loop is over
convert_page_save(i) ==
    /\ task[i].pc = "pagesave"
    /\ \/ /\ fs' = fs \cup { task[i].page_path }
          /\ ioLog' = ioLog \cup { io(i, "write", task[i].page_path) }
          /\ task' = [task EXCEPT ![i] =
                        IF task[i].page < page_count(file_list[i])
                        THEN [@ EXCEPT !.pc = "pagecheck", !.page = @ + 1]
                        ELSE [@ EXCEPT !.pc = "saved"]]
          /\ UNCHANGED yieldq
       \/ /\ returns(i, IoError)
          /\ UNCHANGED << fs, ioLog >>
    /\ UNCHANGED << args, window, cpc, file_list, submitted, queue, yielded, failed_files,
                    events, fsAtStart >>

\* pdf -> other, png -> other: raise NotImplementedError
convert_unsupported(i) ==
    /\ task[i].pc = "convert"
    /\ \/ /\ src_format = "pdf" /\ target_format # "png"
          /\ returns(i, PdfUnsupported)
       \/ /\ src_format = "png" /\ target_format # "pdf"
          /\ returns(i, PngUnsupported)
    /\ UNCHANGED << args, window, fs, cpc, file_list, submitted, queue, yielded, failed_files,
                    events, ioLog, fsAtStart >>

\* png -> pdf: Image.open, convert("RGB"), img.save(output_path, "PDF"); may raise
convert_image(i) ==
    /\ task[i].pc = "convert"
    /\ src_format = "png" /\ target_format = "pdf"
    /\ \/ /\ fs' = fs \cup { task[i].output_path }
          /\ ioLog' = ioLog \cup { io(i, "open", file_list[i]),
                                   io(i, "write", task[i].output_path) }
          /\ task' = [task EXCEPT ![i].pc = "saved"]
          /\ UNCHANGED yieldq
       \/ /\ ioLog' = ioLog \cup { io(i, "open", file_list[i]) }
          /\ returns(i, IoError)
          /\ UNCHANGED fs
    /\ UNCHANGED << args, window, cpc, file_list, submitted, queue, yielded, failed_files,
                    events, fsAtStart >>

\* the conversion has written its last file: the success message is set and
\* convert_file returns
convert_return(i) ==
    /\ task[i].pc = "saved"
    /\ returns(i, None)
    /\ UNCHANGED << args, window, fs, cpc, file_list, submitted, queue, yielded,
                    failed_files, events, ioLog, fsAtStart >>

\* excel -> pdf: subprocess.run(cmd, check=True) starts soffice and waits for it, or
\* soffice cannot be started and the error is raised again with the LibreOffice text
convert_excel(i) ==
    /\ task[i].pc = "convert"
    /\ src_format = "excel" /\ target_format = "pdf"
    /\ ioLog' = ioLog \cup { io(i, "subprocess", file_list[i]) }
    /\ \/ /\ task' = [task EXCEPT ![i].pc = "soffice"]
          /\ UNCHANGED yieldq
       \/ returns(i, soffice_error(NotStarted))
    /\ UNCHANGED << args, window, fs, cpc, file_list, submitted, queue, yielded,
                    failed_files, events, fsAtStart >>

\* the soffice process of task i writes its output into the input's directory
soffice_writes(i) ==
    /\ task[i].pc = "soffice"
    /\ fs' = fs \cup { soffice_output(file_list[i]) }
    /\ ioLog' = ioLog \cup { io(i, "write", soffice_output(file_list[i])) }
    /\ task' = [task EXCEPT ![i].pc = "written"]
    /\ UNCHANGED << args, window, cpc, file_list, submitted, queue, yieldq, yielded,
                    failed_files, events, fsAtStart >>

\* the soffice process of task i exits, whether or not it has written its output:
\* with return code 0 convert_file returns; with any other, check=True raises
\* CalledProcessError, which is raised again with the LibreOffice text
soffice_exits(i) ==
    /\ task[i].pc \in { "soffice", "written" }
    /\ \E code \in ReturnCodes :
         returns(i, IF code = 0
                    THEN None
                    ELSE soffice_error(ProcessError(file_list[i], code)))
    /\ UNCHANGED << args, window, fs, cpc, file_list, submitted, queue, yielded,
                    failed_files, events, ioLog, fsAtStart >>

\* excel -> other: no branch is taken, the call reports success
convert_nothing(i) ==
    /\ task[i].pc = "convert"
    /\ src_format = "excel" /\ target_format # "pdf"
    /\ returns(i, None)
    /\ UNCHANGED << args, window, fs, cpc, file_list, submitted, queue, yielded, failed_files,
                    events, ioLog, fsAtStart >>

\* excel -> pdf: subprocess.run(cmd, check=True) has no timeout; the soffice process
\* never exits and the call never returns
convert_hangs(i) ==
    /\ task[i].pc \in { "soffice", "written" }
    /\ task' = [task EXCEPT ![i].pc = "hung"]
    /\ UNCHANGED << args, window, fs, cpc, file_list, submitted, queue, yieldq, yielded,
                    failed_files, events, ioLog, fsAtStart >>

\* one step of the convert_file call of task i
convert_file(i) ==
    /\ i \in DOMAIN task
    /\ \/ worker_start(i)
       \/ convert_output_path(i)
       \/ convert_pdf_open(i)
       \/ convert_page_path(i)
       \/ convert_page_save(i)
       \/ convert_unsupported(i)
       \/ convert_image(i)
       \/ convert_return(i)
       \/ convert_excel(i)
       \/ soffice_writes(i)
       \/ soffice_exits(i)
       \/ convert_nothing(i)

\* one step of run()
run == run_begin \/ submit \/ as_completed_begin \/ collect \/ run_end

\* ------------------------------------------------------------------ FileConverter
\* ", ".join(folders)
RECURSIVE join(_)
join(q) ==
    IF Len(q) = 1 THEN q[1] ELSE q[1] \o ", " \o join(Tail(q))

SelectedMsg(chosen) == "Selected folders: " \o join(chosen)

\* the items update_target_combo puts into target_combo for a source format
targets(src) ==
    CASE src = "PDF" -> << "PNG" >>
      [] src = "PNG" -> << "PDF" >>
      [] src = "Excel" -> << "PDF" >>

\* a faulty start_conversion: the buttons are left as they are
buttons_for_run_untouched(w) == w

\* start_conversion: self.btn_folder.setEnabled(False), self.btn_convert.setEnabled(False)
buttons_for_run(w) == [w EXCEPT !.btn_folder = FALSE, !.btn_convert = FALSE]

\* a faulty on_finished: only the folder button is enabled again
buttons_after_run_folder_only(w) == [w EXCEPT !.btn_folder = TRUE]

\* on_finished: self.btn_folder.setEnabled(True), self.btn_convert.setEnabled(True)
buttons_after_run(w) == [w EXCEPT !.btn_folder = TRUE, !.btn_convert = TRUE]

\* the folder button is clicked and the dialog is closed with the folders chosen
\* (none when it is cancelled)
select_folders ==
    /\ window.btn_folder
    /\ window.selections < MaxSelections
    /\ \E chosen \in FolderChoices \cup { << >> } :
         window' = IF chosen # << >>
                   THEN [window EXCEPT !.selected_folders = chosen,
                                       !.btn_convert = TRUE,
                                       !.log = Append(@, SelectedMsg(chosen)),
                                       !.selections = @ + 1]
                   ELSE [window EXCEPT !.selections = @ + 1]
    /\ UNCHANGED << args, fs, cpc, file_list, submitted, queue, task, yieldq, yielded,
                    failed_files, events, ioLog, fsAtStart >>

\* another source format is picked in src_combo: currentIndexChanged calls
\* update_target_combo
update_target_combo ==
    /\ \E src \in FormatNames :
         /\ src # window.src_combo
         /\ window' = [window EXCEPT !.src_combo = src, !.target_combo = targets(src)[1]]
    /\ UNCHANGED << args, fs, cpc, file_list, submitted, queue, task, yieldq, yielded,
                    failed_files, events, ioLog, fsAtStart >>

\* the convert button is clicked: start_conversion constructs a ConvertWorker from
\* the selection and the combo boxes, connects its signals and starts its thread
start_conversion ==
    /\ window.btn_convert
    /\ window.workers < MaxRuns
    /\ window' = [buttons_for_run(window) EXCEPT !.bar = 0, !.log = << >>,
                                                 !.selections = 0,
                                                 !.workers = @ + 1, !.handled = 0]
    /\ folders' = window.selected_folders
    /\ src_format' = lower(window.src_combo)
    /\ target_format' = lower(window.target_combo)
    /\ max_workers' = GuiMaxWorkers
    /\ cpc' = "start"
    /\ file_list' = << >>
    /\ submitted' = 0
    /\ queue' = << >>
    /\ task' = << >>
    /\ yieldq' = << >>
    /\ yielded' = << >>
    /\ failed_files' = << >>
    /\ events' = << >>
    /\ ioLog' = {}
    /\ fsAtStart' = << >>
    /\ UNCHANGED fs

\* the next signal of the worker waiting for its slot in the window's thread
pending == events[window.handled + 1]

\* the slot update_progress handles the next signal, a progress signal
update_progress ==
    /\ window.handled < Len(events)
    /\ pending[1] = "progress"
    /\ window' = [window EXCEPT !.bar = pending[2], !.log = Append(@, pending[3]),
                                !.handled = @ + 1]
    /\ UNCHANGED << args, fs, cpc, file_list, submitted, queue, task, yieldq, yielded,
                    failed_files, events, ioLog, fsAtStart >>

\* the slot on_finished handles the next signal, the finished signal; the message
\* box it shows changes nothing
on_finished ==
    /\ window.handled < Len(events)
    /\ pending[1] = "finished"
    /\ window' = [buttons_after_run(window) EXCEPT !.handled = @ + 1]
    /\ UNCHANGED << args, fs, cpc, file_list, submitted, queue, task, yieldq, yielded,
                    failed_files, events, ioLog, fsAtStart >>

Next ==
    \/ run_begin
    \/ submit
    \/ as_completed_begin
    \/ collect
    \/ run_end
    \/ \E i \in DOMAIN task : worker_start(i)
    \/ \E i \in DOMAIN task : convert_output_path(i)
    \/ \E i \in DOMAIN task : convert_pdf_open(i)
    \/ \E i \in DOMAIN task : convert_page_path(i)
    \/ \E i \in DOMAIN task : convert_page_save(i)
    \/ \E i \in DOMAIN task : convert_return(i)
    \/ \E i \in DOMAIN task : convert_unsupported(i)
    \/ \E i \in DOMAIN task : convert_image(i)
    \/ \E i \in DOMAIN task : convert_excel(i)
    \/ \E i \in DOMAIN task : soffice_writes(i)
    \/ \E i \in DOMAIN task : soffice_exits(i)
    \/ \E i \in DOMAIN task : convert_nothing(i)

Spec == Init /\ [][Next]_vars

\* the call of find_files at the head of run(), on the disks of FindInit
FindNext == run_begin

FindSpec == FindInit /\ [][FindNext]_vars

\* the steps of a run for pdf -> png
PagesNext ==
    \/ run_begin
    \/ submit
    \/ as_completed_begin
    \/ collect
    \/ run_end
    \/ \E i \in DOMAIN task : worker_start(i)
    \/ \E i \in DOMAIN task : convert_output_path(i)
    \/ \E i \in DOMAIN task : convert_pdf_open(i)
    \/ \E i \in DOMAIN task : convert_page_path(i)
    \/ \E i \in DOMAIN task : convert_page_save(i)
    \/ \E i \in DOMAIN task : convert_return(i)

PagesSpec == PagesInit /\ [][PagesNext]_vars

\* the steps of a run whose calls are all submitted, for pdf -> excel
PercentNext ==
    \/ collect
    \/ run_end
    \/ \E i \in DOMAIN task : worker_start(i)
    \/ \E i \in DOMAIN task : convert_output_path(i)
    \/ \E i \in DOMAIN task : convert_unsupported(i)

PercentSpec == PercentInit /\ [][PercentNext]_vars

\* the window, the worker it starts and the pool; every pair the combo boxes offer
\* has a conversion branch, and the converter process may hang
GuiNext ==
    \/ select_folders
    \/ update_target_combo
    \/ start_conversion
    \/ update_progress
    \/ on_finished
    \/ run_begin
    \/ submit
    \/ as_completed_begin
    \/ collect
    \/ run_end
    \/ \E i \in DOMAIN task : worker_start(i)
    \/ \E i \in DOMAIN task : convert_output_path(i)
    \/ \E i \in DOMAIN task : convert_pdf_open(i)
    \/ \E i \in DOMAIN task : convert_page_path(i)
    \/ \E i \in DOMAIN task : convert_page_save(i)
    \/ \E i \in DOMAIN task : convert_return(i)
    \/ \E i \in DOMAIN task : convert_image(i)
    \/ \E i \in DOMAIN task : convert_excel(i)
    \/ \E i \in DOMAIN task : soffice_writes(i)
    \/ \E i \in DOMAIN task : soffice_exits(i)
    \/ \E i \in DOMAIN task : convert_hangs(i)

GuiSpec == GuiInit /\ [][GuiNext]_vars

\* the threads are scheduled fairly and the event loop of the window handles every
\* queued signal; a call that has not hung returns.  The user clicks when they like
FairGuiSpec ==
    /\ GuiSpec
    /\ WF_vars(run)
    /\ \A i \in 1..(2 * MaxFiles) : WF_vars(convert_file(i))
    /\ WF_vars(update_progress \/ on_finished)

\* every started step is eventually taken: the threads are scheduled fairly and
\* every convert_file call returns.  A file is found at most twice (FolderChoices),
\* so there are at most 2 * MaxFiles tasks
FairSpec == Spec /\ WF_vars(run) /\ \A i \in 1..(2 * MaxFiles) : WF_vars(convert_file(i))


\* ------------------------------------------------------------------ properties
IsProgress(k) == events[k][1] = "progress"
IsFinished(k) == events[k][1] = "finished"
ProgressAt == { k \in 1..Len(events) : IsProgress(k) }
FinishedAt == { k \in 1..Len(events) : IsFinished(k) }

\* no element occurs twice in the sequence q
NoRepeat(q) == \A k, l \in 1..Len(q) : q[k] = q[l] => k = l

\* the progress signal that carries the outcome of task i
OutcomeSignal(i) == << "progress", task[i].result.percent, task[i].result.msg >>

\* the k-th signal is the outcome of the k-th future handled, for every future handled
SignalsFollowYielded ==
    /\ Cardinality(ProgressAt) = Len(yielded)
    /\ \A k \in 1..Len(yielded) :
         /\ yielded[k] \in Tasks
         /\ task[yielded[k]].pc = "finished"
         /\ events[k] = OutcomeSignal(yielded[k])

\* C1: in a run over N >= 1 files, no task's outcome is ever emitted twice, and
\* when finished is emitted exactly N progress signals precede it, one for each
\* of the tasks 1..N, whatever the order of completion.
C1_OneOutcomePerTask ==
    total >= 1 =>
        /\ NoRepeat(yielded)
        /\ SignalsFollowYielded
        /\ FinishedAt # {} =>
             /\ Len(events) = total + 1
             /\ ProgressAt = 1..total
             /\ { yielded[k] : k \in 1..Len(yielded) } = Tasks

\* a run of three files has ended and the outcomes came out of list order
C1_Witness ==
    /\ cpc = "done"
    /\ total = 3
    /\ yielded = << 3, 1, 2 >>
    /\ Len(events) = 4

\* the run is over: every task's outcome was emitted once and finished was emitted
RunComplete ==
    /\ cpc = "done"
    /\ FinishedAt = { Len(events) }
    /\ total >= 1 =>
         /\ Len(yielded) = total
         /\ \A i \in Tasks : Cardinality({ k \in 1..Len(yielded) : yielded[k] = i }) = 1
         /\ \A k \in 1..total : events[k] = OutcomeSignal(yielded[k])

\* C2: under fair scheduling, with every convert_file call returning, every task's
\* outcome is eventually emitted exactly once and finished is eventually emitted,
\* for every order of completion of the workers.
C2_EventuallyComplete == <>[]RunComplete

\* two workers, three files, and the last task's outcome was emitted first
C2_Witness ==
    /\ RunComplete
    /\ max_workers = 2
    /\ total = 3
    /\ yielded[1] = 3

\* C3: the percent values of successive progress signals never decrease.
C3_PercentMonotonic ==
    \A k, l \in ProgressAt : k < l => events[k][2] <= events[l][2]

\* C4: at every moment at most max_workers convert_file calls have started and
\* not returned, also when more tasks than workers were submitted.
C4_BoundedConcurrency == Cardinality(running) <= max_workers

\* all tasks are submitted, every worker is busy and a task still waits in the queue
C4_Witness ==
    /\ total > max_workers
    /\ submitted = total
    /\ Cardinality(running) = max_workers
    /\ queue # << >>

\* C5: when find_files returns nothing the run emits one progress signal (0, the
\* no-files message) and then one finished signal with an empty list, starts no
\* task and makes no conversion step; no run with a file emits that message.
C5_NoFiles ==
    /\ (cpc # "start" /\ total = 0) =>
          /\ cpc = "done"
          /\ events = << << "progress", 0, NoFilesMsg >>, << "finished", << >> >> >>
          /\ submitted = 0 /\ queue = << >> /\ task = << >>
          /\ ioLog = {} /\ failed_files = << >>
    /\ total >= 1 =>
          /\ \A k \in ProgressAt : events[k][3] # NoFilesMsg
          /\ cpc = "done" => Len(events) >= 2 /\ events[1] # << "progress", 0, NoFilesMsg >>

\* a run that found no file although files are on disk has ended
C5_Witness ==
    /\ cpc = "done"
    /\ total = 0
    /\ fs # {}
    /\ Len(events) = 2

\* the failed pair a task that raised must report
FailedPair(i) == << PathStr(file_list[i]), task[i].exc >>

\* every call that raised has returned a triple whose failed is (input path, error text)
FailuresAreData ==
    \A i \in DOMAIN task :
        task[i].pc = "finished" =>
            /\ task[i].result.percent \in 0..100
            /\ task[i].exc # None => task[i].result.failed = FailedPair(i)
            /\ task[i].exc = None => task[i].result.failed = << >>

SomeRaised == \E i \in DOMAIN task : task[i].exc # None

\* C6: a conversion that raises is turned into data, (input path, error text), and
\* aborts nothing: once some task has raised, all N outcomes and the finished
\* signal are still emitted.
C6_FailureIsolated == [](FailuresAreData) /\ (SomeRaised ~> RunComplete)

\* the run has ended although the first and the last of three tasks raised
C6_Witness ==
    /\ RunComplete
    /\ total = 3
    /\ task[1].exc # None /\ task[2].exc = None /\ task[3].exc # None

\* the failed pairs of the tasks of q that raised, in the order of q
RECURSIVE FailuresOf(_)
FailuresOf(q) ==
    IF q = << >> THEN << >>
    ELSE (IF task[Head(q)].exc # None THEN << FailedPair(Head(q)) >> ELSE << >>)
         \o FailuresOf(Tail(q))

\* C7: finished is emitted at most once, only when every submitted task has
\* completed and its progress signal was emitted, nothing follows it, and its list
\* holds one (path, error) entry per task that failed and none for the others.
C7_FinishedLast ==
    /\ Cardinality(FinishedAt) <= 1
    /\ cpc = "done" <=> FinishedAt # {}
    /\ \A k \in FinishedAt :
         /\ k = Len(events)
         /\ \A i \in DOMAIN task : task[i].pc = "finished"
         /\ Cardinality(ProgressAt) = (IF total = 0 THEN 1 ELSE total)
         /\ NoRepeat(yielded)
         /\ events[k][2] = FailuresOf(yielded)
         /\ Len(events[k][2]) = Cardinality({ i \in DOMAIN task : task[i].exc # None })

\* finished carried exactly the one failure of a run in which another task succeeded
C7_Witness ==
    /\ cpc = "done"
    /\ total >= 2
    /\ \E i, j \in Tasks : task[i].exc # None /\ task[j].exc = None
    /\ Len(events[Len(events)][2]) = 1


\* the operations task i has made, of the kinds in ops
Ops(i, ops) == { w \in ioLog : w.task = i /\ w.op \in ops }

\* C8: for pdf -> excel and png -> excel every convert_file call returns a failure
\* and makes no I/O on the way: no existence test, open, write or subprocess.
C8_UnsupportedNoIO ==
    (src_format \in { "pdf", "png" } /\ target_format = "excel") =>
        \A i \in DOMAIN task :
            /\ task[i].pc = "finished" => task[i].result.failed # << >>
            /\ Ops(i, { "exists", "open", "write", "subprocess" }) = {}

\* the output paths the calls of this run can ask get_unique_path for
Desired ==
    { target_path(file_list[i], target_format) : i \in DOMAIN file_list }
        \cup (IF src_format = "pdf" /\ target_format = "png"
              THEN UNION { { page_target(file_list[i], n) :
                               n \in 1..page_count(file_list[i]) } :
                           i \in DOMAIN file_list }
              ELSE {})

\* P with "(k)" inserted before the extension
Candidate(P, k) == [dir |-> P.dir, name |-> P.name \o "(" \o str(k) \o ")", ext |-> P.ext]

\* r is the answer the claim prescribes for P on the disk: P when P is absent, else
\* the first absent one of P(1), P(2), ...
FirstFree(P, r, disk) ==
    LET present == { PathStr(q) : q \in disk } IN
    /\ PathStr(r) \notin present
    /\ PathStr(P) \notin present => r = P
    /\ PathStr(P) \in present =>
         \E k \in 1..(Cardinality(disk) + 1) :
             /\ r = Candidate(P, k)
             /\ \A j \in 1..(k - 1) : PathStr(Candidate(P, j)) \in present

\* C9: on a disk that does not change during the call, get_unique_path(P) ends and
\* returns a path that does not exist: P when P is absent, else P with "(k)" before
\* the extension for the least k >= 1 whose candidate is absent.  So the path a
\* task received did not exist on the disk the call saw.
C9_UniquePath ==
    /\ \A P \in Desired : LET r == get_unique_path(P, fs) IN FirstFree(P, r, fs)
    /\ \A i \in DOMAIN task :
         task[i].pc \notin { "new", "queued", "started" } =>
             FirstFree(target_path(file_list[i], target_format), task[i].output_path,
                       fsAtStart[i])

\* a task asked for a.pdf while a.pdf and a(1).pdf existed and received a(2).pdf
C9_Witness ==
    \E i \in DOMAIN task :
        /\ task[i].pc \notin { "new", "queued", "started" }
        /\ PathStr(task[i].output_path) = "/r/a(2).pdf"
        /\ { "/r/a.pdf", "/r/a(1).pdf" } \subseteq { PathStr(q) : q \in fsAtStart[i] }

\* C10: with a single worker, for every supported pair, no task writes to a path
\* that existed before the task started.
C10_NoOverwrite ==
    max_workers = 1 =>
        \A w \in ioLog :
            w.op = "write" => w.path \notin { PathStr(q) : q \in fsAtStart[w.task] }


\* C11: within one run two different discovered files never have the same desired
\* output path (base + "." + target_format, and for pdf -> png base + "_page<N>.png").
C11_DistinctTargets ==
    \A i, j \in DOMAIN file_list :
        file_list[i] # file_list[j] =>
            /\ target_path(file_list[i], target_format)
                 # target_path(file_list[j], target_format)
            /\ page_target(file_list[i], 1) # page_target(file_list[j], 1)

\* task i has written the path p that get_unique_path had returned to it
WroteReceived(i, p) ==
    /\ [task |-> i, op |-> "write", path |-> p] \in ioLog
    /\ \/ src_format = "pdf"
       \/ PathStr(task[i].output_path) = p

\* two tasks were given the same path by get_unique_path and both wrote it
Overwritten ==
    \E i, j \in DOMAIN task :
        /\ i # j
        /\ \E w \in ioLog : WroteReceived(i, w.path) /\ WroteReceived(j, w.path)

\* C12: with max_workers = 1 no two tasks ever receive the same path from
\* get_unique_path and both write it; with two workers that state is reached
\* (C12_Witness: both existence tests ran before either file was created).
C12_NoRaceWithOneWorker == max_workers = 1 => ~ Overwritten

\* two workers: both tasks tested /r/a.pdf before either wrote it, both received
\* it, and both wrote it
C12_Witness ==
    /\ max_workers >= 2
    /\ Overwritten
    /\ \E i, j \in DOMAIN task :
         /\ i # j
         /\ task[i].output_path = task[j].output_path
         /\ fsAtStart[i] = fsAtStart[j]
         /\ WroteReceived(i, PathStr(task[i].output_path))
         /\ WroteReceived(j, PathStr(task[j].output_path))

\* C19: the list find_files returns holds no path twice, also when the selected
\* folders overlap.
C19_NoDuplicateTasks == NoRepeat(file_list)

\* C20: a call reports success only if a conversion action (page rendering, image
\* save or converter subprocess) was made for it and did not raise; a pair without
\* an action yields a failure.
C20_SuccessMeansConverted ==
    \A i \in DOMAIN task :
        (task[i].pc = "finished" /\ task[i].result.failed = << >>) =>
            /\ task[i].exc = None
            /\ Ops(i, { "write", "subprocess" }) # {}

\* a step of a pool worker: some convert_file call starts, advances or returns
WorkerStep ==
    \E i \in DOMAIN task \cap DOMAIN task' : task'[i] # task[i] /\ task[i].pc # "new"

\* C16: the failure list and the signals are written only by steps of run(), never
\* by a step of a pool worker, one append and one emit per future handled; so at
\* every moment the failure list is exactly the failures of the futures handled, in
\* the order handled, none lost and none twice, also when workers complete
\* concurrently.
C16_SingleWriter ==
    /\ [][WorkerStep => UNCHANGED << events, failed_files, yielded >>]_vars
    /\ [][(events' # events \/ failed_files' # failed_files) => run]_vars
    /\ [][yielded' # yielded =>
            /\ Len(events') = Len(events) + 1
            /\ Len(failed_files') <= Len(failed_files) + 1]_vars
    /\ [](failed_files = FailuresOf(yielded))
    /\ [](total >= 1 => NoRepeat(yielded) /\ SignalsFollowYielded)

\* two workers: task 2 started after task 1 and failed before task 1 failed, and
\* both failures are in the list, in the order of completion
C16_Witness ==
    /\ max_workers = 2
    /\ Len(yielded) >= 2 /\ yielded[1] = 2 /\ yielded[2] = 1
    /\ task[1].exc # None /\ task[2].exc # None
    /\ failed_files = << FailedPair(2), FailedPair(1) >>

\* the paths task i has written
Written(i) == { w.path : w \in Ops(i, { "write" }) }

\* base + "_page" + p + ".png" for the input of task i, spelled out
PageName(i, p) ==
    file_list[i].dir \o "/" \o file_list[i].name \o "_page" \o str(p) \o ".png"

\* nothing collides with the page names of task i: no such file was on disk when
\* the task began and no other task has written one
NoCollision(i) ==
    \A p \in 1..page_count(file_list[i]) :
        /\ PageName(i, p) \notin { PathStr(q) : q \in fsAtStart[i] }
        /\ \A j \in DOMAIN task : j # i => PageName(i, p) \notin Written(j)

\* task i has converted its document without an error
PagesDone(i) == task[i].pc = "finished" /\ task[i].exc = None

\* C17: for pdf -> png, the page p of a document is saved at
\* get_unique_path(base_page<p>.png) evaluated on the disk just before the save; a
\* document of N pages converted without error has written exactly N files, with
\* nothing colliding exactly base_page1.png .. base_page<N>.png, and never base.png.
C17_OneFilePerPage ==
    /\ [][\A i \in DOMAIN task \cap DOMAIN task' :
            (task[i].pc = "pagecheck" /\ task'[i].pc = "pagesave") =>
                task'[i].page_path
                    = get_unique_path([dir |-> file_list[i].dir,
                                       name |-> file_list[i].name \o "_page"
                                                  \o str(task[i].page),
                                       ext |-> ".png"], fs)]_vars
    /\ [][\A i \in DOMAIN task \cap DOMAIN task' :
            (task[i].pc = "pagesave" /\ task'[i].pc # "pagesave" /\ task'[i].exc = None) =>
                /\ Written(i)' = Written(i) \cup { PathStr(task[i].page_path) }
                /\ task[i].page_path \in fs'
                /\ \/ task'[i].pc = "pagecheck" /\ task'[i].page = task[i].page + 1
                   \/ task'[i].pc = "saved" /\ task[i].page = page_count(file_list[i])]_vars
    /\ [][\A i \in DOMAIN task \cap DOMAIN task' :
            task[i].pc = "saved" => Written(i)' = Written(i)]_vars
    /\ []((src_format = "pdf" /\ target_format = "png") =>
            \A i \in DOMAIN task :
                /\ file_list[i].dir \o "/" \o file_list[i].name \o ".png" \notin Written(i)
                /\ Cardinality(Written(i)) <= page_count(file_list[i])
                /\ PagesDone(i) =>
                     /\ Cardinality(Written(i)) = page_count(file_list[i])
                     /\ NoCollision(i) =>
                          Written(i) = { PageName(i, p) : p \in 1..page_count(file_list[i]) })

\* the 3-page /r/d.pdf was converted with nothing colliding: exactly the three
\* page files were written
C17_Witness ==
    /\ src_format = "pdf" /\ target_format = "png"
    /\ \E i \in DOMAIN task :
         /\ PathStr(file_list[i]) = "/r/d.pdf"
         /\ PagesDone(i)
         /\ NoCollision(i)
         /\ Written(i) = { "/r/d_page1.png", "/r/d_page2.png", "/r/d_page3.png" }
         /\ "/r/d.png" \notin { PathStr(q) : q \in fs }

\* the extensions, as spelled on disk, that lower-case into the format's set
Accepted(fmt) ==
    CASE fmt = "pdf" -> { ".pdf", ".PDF", ".Pdf" }
      [] fmt = "png" -> { ".png", ".PNG", ".jpg", ".JPG", ".jpeg", ".JPEG" }
      [] fmt = "excel" -> { ".xls", ".XLS", ".xlsx", ".XLSX" }

\* the file lies in a selected folder or in a directory below one
UnderSomeRoot(f) ==
    \E k \in DOMAIN folders :
        \/ f.dir = folders[k]
        \/ folders[k] = "/r" /\ f.dir = "/r/s"

\* C13: after find_files, a file is in the list if and only if it lies under one of
\* the selected folders, at any depth, and its extension lower-cased is in the set of
\* the source format; other extensions are never listed, upper-case ones are.
C13_FindFiles ==
    cpc # "start" =>
        { file_list[k] : k \in DOMAIN file_list }
            = { f \in fs : UnderSomeRoot(f) /\ f.ext \in Accepted(src_format) }

\* /r holds a.PDF and n.txt and /r/s holds b.pdf: a.PDF and the nested b.pdf are
\* found, n.txt is not
C13_Witness ==
    /\ cpc # "start"
    /\ folders = << "/r" >>
    /\ src_format = "pdf"
    /\ { PathStr(f) : f \in fs } = { "/r/a.PDF", "/r/n.txt", "/r/s/b.pdf" }
    /\ { PathStr(file_list[k]) : k \in DOMAIN file_list } = { "/r/a.PDF", "/r/s/b.pdf" }

\* C14: the call at index idx of N reports floor((idx + 1) * 100 / N), whatever
\* was completed before it: a whole number in 0..100, not smaller than the value at
\* a lower index, and 100 exactly at the last index.
C14_IndexPercent ==
    \A i \in DOMAIN task :
        task[i].pc = "finished" =>
            /\ task[i].result.percent = (i * 100) \div total
            /\ task[i].result.percent \in 0..100
            /\ i = total <=> task[i].result.percent = 100
            /\ \A j \in DOMAIN task :
                 (j < i /\ task[j].pc = "finished") =>
                     task[j].result.percent <= task[i].result.percent

\* some convert_file call of the current run will never return
Hung == \E i \in DOMAIN task : task[i].pc = "hung"

\* the outcome of task i was emitted by run()
Emitted(i) == \E k \in 1..Len(yielded) : yielded[k] = i /\ events[k] = OutcomeSignal(i)

\* task i of the current run has returned
Returned(i) == i \in DOMAIN task /\ task[i].pc = "finished"

\* every call of the current run that has returned has had its outcome emitted
ReturnedAreEmitted == \A i \in DOMAIN task : Returned(i) => Emitted(i)

\* C15: a convert_file call that hangs hangs for ever, and while it hangs finished is
\* not emitted and the folder and convert buttons of the window are disabled: so
\* never, and for ever; the outcome of every other call that returns is still
\* emitted.
C15_HangBlocksRun ==
    /\ [][Hung => Hung']_vars
    /\ [](Hung => /\ FinishedAt = {}
                  /\ cpc # "done"
                  /\ ~ window.btn_folder
                  /\ ~ window.btn_convert)
    /\ Hung ~> [](Hung /\ ReturnedAreEmitted)

\* the converter hangs on one workbook; the call for the other returned, its outcome
\* was emitted and shown, run() waits in as_completed and both buttons are disabled
C15_Witness ==
    /\ Hung
    /\ \E i, j \in DOMAIN task :
         /\ task[i].pc = "hung"
         /\ file_list[j] # file_list[i]
         /\ Returned(j) /\ Emitted(j)
    /\ cpc = "collect" /\ yieldq = << >>
    /\ window.handled = Len(events)
    /\ ~ window.btn_folder /\ ~ window.btn_convert

\* a worker was started and its finished signal has not been handled by on_finished
RunInProgress ==
    /\ window.workers >= 1
    /\ ~ (cpc = "done" /\ window.handled = Len(events))

\* C18: at most one ConvertWorker runs at a time: a worker is started only when none
\* is in progress; the convert button is enabled only when a folder is selected and
\* no run is in progress; both buttons are disabled while a run is in progress, and
\* the step that ends it, on_finished, enables both.
C18_OneRunAtATime ==
    /\ [](window.btn_convert => window.selected_folders # << >> /\ ~ RunInProgress)
    /\ [](RunInProgress => ~ window.btn_folder /\ ~ window.btn_convert)
    /\ [](~ RunInProgress => window.btn_folder /\ cpc \in { "none", "done" })
    /\ [][window'.workers # window.workers =>
            /\ ~ RunInProgress
            /\ RunInProgress'
            /\ window'.workers = window.workers + 1]_vars
    /\ [][(RunInProgress /\ ~ RunInProgress') =>
            /\ pending[1] = "finished"
            /\ window'.btn_folder /\ window'.btn_convert]_vars

\* the second conversion started from the window has ended, its finished signal was
\* handled and both buttons are enabled again
C18_Witness ==
    /\ window.workers = 2
    /\ total >= 1
    /\ cpc = "done"
    /\ window.handled = Len(events)
    /\ window.btn_folder /\ window.btn_convert

====
